---- MODULE Spec2Model ----
(***************************************************************************)
(* RasterGrid (src/raster_grid.py): a uniform 2D raster grid with cell     *)
(* enumeration, cell centers and point location.                           *)
(*                                                                         *)
(* Numbers.  Coordinates are integers counted in a length unit in which    *)
(* every arithmetic result of the modelled runs is integral, so the float  *)
(* expressions of the source are modelled by exact arithmetic: sizes are   *)
(* chosen as multiples of the resolution and cell widths are even, which   *)
(* makes size/resolution and (index + 0.5)*dx exact.  The factor 1e-6 of   *)
(* the tolerance is kept as the rational 1/TolDen.                         *)
(*                                                                         *)
(* Tuples.  Python indexes tuples from 0, TLA+ from 1: size[0] of the      *)
(* source is size[1] here, _dx[1] is dx[2], and so on.                     *)
(***************************************************************************)
EXTENDS Integers, Sequences, FiniteSets

VARIABLES grid, ctor, op, gens

vars == <<grid, ctor, op, gens>>

-----------------------------------------------------------------------------
(* Bounds of the model and constants of the program.                       *)

\* Largest resolution component tried.
MaxRes == 2

\* The coarse cell width tried is LargeCells * TolDen length units, so that
\* the tolerance of a grid with a coarse axis is LargeCells units.
LargeCells == 5

\* Number of generator objects obtained from the cells property.
MaxGens == 2

\* 1e-6 in locate's tolerance is 1/TolDen.
TolDen == 1000000

\* Cell widths (size/resolution) of the valid grids: a fine and a coarse one.
CellWidths == {2, LargeCells * TolDen}

\* Size components that are not positive, scaled like the cell widths.
BadWidths == {0, -2}

\* Resolution components: the valid ones, zero and a negative one.
Resolutions == {-1, 0} \cup (1..MaxRes)

\* Lower-left corners tried.
LowerLefts == {[x |-> 0, y |-> 0], [x |-> -3, y |-> 7]}

-----------------------------------------------------------------------------
(* Arithmetic of the source.                                               *)

Abs(n) == IF n < 0 THEN -n ELSE n

Max(a, b) == IF a >= b THEN a ELSE b

\* a/b for floats whose quotient is exact in the model (b # 0).
Quotient(a, b) ==
    LET q == Abs(a) \div Abs(b)
    IN  IF (a < 0) = (b < 0) THEN q ELSE -q

\* round(a/b) in place of int(a/b): to the nearest integer, halves away
\* from zero.
IntRound(a, b) ==
    LET q == (2 * Abs(a) + Abs(b)) \div (2 * Abs(b))
    IN  IF (a < 0) = (b < 0) THEN q ELSE -q

\* int(a/b): Python's int() of a float truncates toward zero (b # 0).
IntTrunc(a, b) ==
    LET q == Abs(a) \div Abs(b)
    IN  IF (a < 0) = (b < 0) THEN q ELSE -q

-----------------------------------------------------------------------------
(* Values.                                                                 *)

Point(x, y) == [x |-> x, y |-> y]

Cell(i, j) == [col_index |-> i, row_index |-> j]

NoGrid == [constructed |-> FALSE]

NoCall == [name |-> "none"]

NoCtor == [outcome |-> "none"]

-----------------------------------------------------------------------------
(* Construction.                                                           *)

\* The arguments tried: a size component is a multiple of its resolution
\* component, so that the cell width is exact.
SizesFor(n) ==
    LET m == IF n = 0 THEN 1 ELSE Abs(n)
    IN  {m * w : w \in CellWidths \cup BadWidths}

CtorArgs ==
    {[lower_left |-> p, size |-> <<w, h>>, resolution |-> <<rx, ry>>] :
        p \in LowerLefts, rx \in Resolutions, ry \in Resolutions,
        w \in UNION {SizesFor(n) : n \in Resolutions},
        h \in UNION {SizesFor(n) : n \in Resolutions}}

ExactArgs ==
    {a \in CtorArgs : /\ a.size[1] \in SizesFor(a.resolution[1])
                      /\ a.size[2] \in SizesFor(a.resolution[2])}

\* The arguments the specification accepts.
ValidArgs(a) ==
    /\ a.size[1] > 0 /\ a.size[2] > 0
    /\ a.resolution[1] > 0 /\ a.resolution[2] > 0

\* RasterGrid.__init__: float division by a zero resolution raises
\* ZeroDivisionError; nothing else is checked.
RasterGridRaises(a) == a.resolution[1] = 0 \/ a.resolution[2] = 0

RasterGridInit(a) ==
    [constructed |-> TRUE,
     lower_left  |-> a.lower_left,
     size        |-> a.size,
     resolution  |-> a.resolution,
     dx          |-> <<Quotient(a.size[1], a.resolution[1]),
                       Quotient(a.size[2], a.resolution[2])>>]

Construct(a) ==
    /\ ctor.outcome = "none"
    /\ IF RasterGridRaises(a)
       THEN /\ ctor' = [outcome |-> "ZeroDivisionError", args |-> a]
            /\ grid' = NoGrid
       ELSE /\ ctor' = [outcome |-> "ok", args |-> a]
            /\ grid' = RasterGridInit(a)
    /\ UNCHANGED <<op, gens>>

NoGens == [k \in 1..MaxGens |-> [pc |-> "none"]]

InitNew ==
    /\ grid = NoGrid
    /\ ctor = NoCtor
    /\ op = NoCall
    /\ gens = NoGens

NextCtor == \E a \in ExactArgs : Construct(a)

SpecCtor == InitNew /\ [][NextCtor]_vars

-----------------------------------------------------------------------------
(* Queries: center and locate.                                             *)

Constructed == grid.constructed

\* A grid the specification calls valid: positive sizes and resolutions.
ValidGrid(g) ==
    /\ g.constructed
    /\ g.size[1] > 0 /\ g.size[2] > 0
    /\ g.resolution[1] > 0 /\ g.resolution[2] > 0

\* (index + 0.5)*d, exact because the cell widths of the model are even.
HalfSteps(index, d) == ((2 * index + 1) * d) \div 2

\* center without the half cell: the cell's lower-left corner.
center_no_half(g, cell) ==
    Point(g.lower_left.x + cell.col_index * g.dx[1],
          g.lower_left.y + cell.row_index * g.dx[2])

\* RasterGrid.center
center(g, cell) ==
    Point(g.lower_left.x + HalfSteps(cell.col_index, g.dx[1]),
          g.lower_left.y + HalfSteps(cell.row_index, g.dx[2]))

\* tolerance = 1e-6*max(dx[0], dx[1]), as the numerator over TolDen.
Tolerance(g) == Max(g.dx[1], g.dx[2])

\* abs(d) < tolerance for an integer d: Abs(d)*TolDen < tol, written with a
\* division to stay within TLC's integers.
WithinTol(d, tol) == tol > 0 /\ Abs(d) <= (tol - 1) \div TolDen

\* The result of an index helper: an int, or the exception it raises.
Index(n) == [raised |-> FALSE, value |-> n]

Raised == [raised |-> TRUE, value |-> 0]

\* int(d/width), where the float division raises on a zero width.
IntDiv(d, width) == IF width = 0 THEN Raised ELSE Index(IntTrunc(d, width))

\* RasterGrid._get_x_index
get_x_index(g, point, tol) ==
    LET x_min == g.lower_left.x
        x_max == g.lower_left.x + g.size[1]
    IN  IF WithinTol(point.x - x_min, tol) THEN Index(0)
        ELSE IF WithinTol(point.x - x_max, tol) THEN Index(g.resolution[1] - 1)
        ELSE IntDiv(point.x - x_min, g.dx[1])

\* RasterGrid._get_y_index
get_y_index(g, point, tol) ==
    LET y_min == g.lower_left.y
        y_max == g.lower_left.y + g.size[2]
    IN  IF WithinTol(point.y - y_min, tol) THEN Index(0)
        ELSE IF WithinTol(point.y - y_max, tol) THEN Index(g.resolution[2] - 1)
        ELSE IntDiv(point.y - y_min, g.dx[2])

None == [kind |-> "None"]

Found(i, j) == [kind |-> "Cell", col_index |-> i, row_index |-> j]

\* RasterGrid.locate: the x check rejects with "or", the y check is written
\* with "and" and so rejects nothing.
locate(g, point) ==
    LET tolerance == Tolerance(g)
        ix == get_x_index(g, point, tolerance)
        iy == get_y_index(g, point, tolerance)
    IN  IF ix.raised \/ iy.raised THEN [kind |-> "ZeroDivisionError"]
        ELSE IF ix.value < 0 \/ ix.value >= g.resolution[1] THEN None
        ELSE IF iy.value < 0 /\ iy.value >= g.resolution[2] THEN None
        ELSE Found(ix.value, iy.value)

\* The coordinates queried on one axis: around both ends of the domain at
\* the distances that decide the tolerance test, around every cell edge
\* from two cells below the domain to one above, and the cell centers.
Offsets ==
    {-1, 0, 1} \cup {s * (LargeCells + e) : s \in {-1, 1}, e \in {-1, 0, 1}}

QueryCoords(v_min, extent, n, d) ==
    {v_min + o : o \in Offsets}
    \cup {v_min + extent + o : o \in Offsets}
    \cup {v_min + k * d + e : k \in -2..(n + 1), e \in {-1, 0, 1}}
    \cup {v_min + HalfSteps(k, d) : k \in 0..(n - 1)}

QueryPoints(g) ==
    {Point(x, y) :
        x \in QueryCoords(g.lower_left.x, g.size[1], g.resolution[1], g.dx[1]),
        y \in QueryCoords(g.lower_left.y, g.size[2], g.resolution[2], g.dx[2])}

\* The cells handed to center: those of the grid and a ring around them.
QueryCells(g) ==
    {Cell(i, j) : i \in -1..g.resolution[1], j \in -1..g.resolution[2]}

\* One call at a time: a query is made when the caller holds no result.
Idle == Constructed /\ op.name = "none"

Locate(p) ==
    /\ Idle
    /\ op' = [name |-> "locate", arg |-> p,
              ix |-> get_x_index(grid, p, Tolerance(grid)),
              iy |-> get_y_index(grid, p, Tolerance(grid)),
              result |-> locate(grid, p)]
    /\ UNCHANGED <<grid, ctor, gens>>

Center(c) ==
    /\ Idle
    /\ op' = [name |-> "center", arg |-> c,
              result |-> [kind |-> "Point", point |-> center(grid, c)]]
    /\ UNCHANGED <<grid, ctor, gens>>

\* The caller has used the result of its last call.
Return ==
    /\ op.name # "none"
    /\ op' = NoCall
    /\ UNCHANGED <<grid, ctor, gens>>

\* The state after a construction that returned a grid.
InitConstructed ==
    \E a \in ExactArgs :
        /\ ~RasterGridRaises(a)
        /\ grid = RasterGridInit(a)
        /\ ctor = [outcome |-> "ok", args |-> a]
        /\ op = NoCall
        /\ gens = NoGens

\* The query sets are built only when a call can be made.
NextLocate ==
    \/ Idle /\ \E p \in QueryPoints(grid) : Locate(p)
    \/ Idle /\ \E c \in QueryCells(grid) : Center(c)
    \/ Return

SpecLocate == InitConstructed /\ [][NextLocate]_vars

-----------------------------------------------------------------------------
(* Enumeration: number_of_cells and the cells generator.                   *)

\* RasterGrid.number_of_cells
number_of_cells(g) == g.resolution[1] * g.resolution[2]

Gens == 1..MaxGens

Live(k) == gens[k].pc \in {"created", "suspended"}

\* cells handing out a view of one cursor shared by the generators: a new
\* generator continues where a suspended one stands.
cells_shared(g) ==
    IF \E k \in Gens : gens[k].pc = "suspended"
    THEN LET k == CHOOSE k \in Gens : gens[k].pc = "suspended"
         IN  [pc |-> "suspended", i |-> gens[k].i, j |-> gens[k].j,
              yielded |-> <<>>]
    ELSE [pc |-> "created", i |-> 0, j |-> 0, yielded |-> <<>>]

\* RasterGrid.cells: every access builds a new generator object, whose loop
\* variables i and j are its own; yielded lists what it has produced.
cells(g) == [pc |-> "created", i |-> 0, j |-> 0, yielded |-> <<>>]

Yield(gen, i, j) ==
    [gen EXCEPT !.pc = "suspended", !.i = i, !.j = j,
                !.yielded = Append(gen.yielded, Cell(i, j))]

Finish(gen) == [gen EXCEPT !.pc = "finished"]

\* next() with the inner loop running over range(nx) too.
gen_next_swapped(g, gen) ==
    LET nx == g.resolution[1]
    IN  IF gen.pc = "created"
        THEN IF 0 < nx /\ 0 < nx THEN Yield(gen, 0, 0) ELSE Finish(gen)
        ELSE IF gen.j + 1 < nx THEN Yield(gen, gen.i, gen.j + 1)
        ELSE IF gen.i + 1 < nx /\ 0 < nx THEN Yield(gen, gen.i + 1, 0)
        ELSE Finish(gen)

\* next() on the generator: run "for i in range(nx) for j in range(ny)"
\* from where it is suspended to the next yield, or to its end.
gen_next(g, gen) ==
    LET nx == g.resolution[1]
        ny == g.resolution[2]
    IN  IF gen.pc = "created"
        THEN IF 0 < nx /\ 0 < ny THEN Yield(gen, 0, 0) ELSE Finish(gen)
        ELSE IF gen.j + 1 < ny THEN Yield(gen, gen.i, gen.j + 1)
        ELSE IF gen.i + 1 < nx /\ 0 < ny THEN Yield(gen, gen.i + 1, 0)
        ELSE Finish(gen)

\* grid.cells is read and the generator kept in slot k; beside records that
\* another generator had by then produced cells.
Cells(k) ==
    /\ Constructed
    /\ LET gen == cells(grid)
       IN  gens' = [gens EXCEPT ![k] =
                      [pc |-> gen.pc, i |-> gen.i, j |-> gen.j,
                       yielded |-> gen.yielded,
                       beside |-> \E m \in Gens \ {k} :
                                     gens[m].pc \in {"suspended", "finished"}]]
    /\ UNCHANGED <<grid, ctor, op>>

\* next(generator k); on a finished generator it raises StopIteration and
\* changes nothing.
GenNext(k) ==
    /\ Constructed
    /\ Live(k)
    /\ gens' = [gens EXCEPT ![k] = gen_next(grid, gens[k])]
    /\ UNCHANGED <<grid, ctor, op>>

\* The grids enumerated: every constructible resolution, one geometry.
CellsArgs ==
    {a \in ExactArgs :
        /\ ~RasterGridRaises(a)
        /\ a.lower_left = Point(0, 0)
        /\ a.size[1] = 2 * Abs(a.resolution[1])
        /\ a.size[2] = 2 * Abs(a.resolution[2])}

InitCells ==
    \E a \in CellsArgs :
        /\ grid = RasterGridInit(a)
        /\ ctor = [outcome |-> "ok", args |-> a]
        /\ op = NoCall
        /\ gens = NoGens

NextCells ==
    \/ \E k \in Gens : Cells(k)
    \/ \E k \in Gens : GenNext(k)

SpecCells == InitCells /\ [][NextCells]_vars

-----------------------------------------------------------------------------
(* The vocabulary of the specification, defined from its own words.        *)

nx == grid.resolution[1]

ny == grid.resolution[2]

\* cell_width = size.width/nx and cell_height = size.height/ny (valid grid).
cell_width == grid.size[1] \div nx

cell_height == grid.size[2] \div ny

x_min == grid.lower_left.x

y_min == grid.lower_left.y

x_max == grid.lower_left.x + grid.size[1]

y_max == grid.lower_left.y + grid.size[2]

\* eps = 1e-6*max(cell_width, cell_height); for an integer d, d < eps and
\* d > eps are comparisons with eps rounded up and down.
EpsUp == (Max(cell_width, cell_height) + TolDen - 1) \div TolDen

EpsDown == Max(cell_width, cell_height) \div TolDen

WithinEps(v, w) == Abs(v - w) < EpsUp

\* [0,nx) x [0,ny)
GridCells == {Cell(i, j) : i \in 0..(nx - 1), j \in 0..(ny - 1)}

Located == ValidGrid(grid) /\ op.name = "locate"

Centered == ValidGrid(grid) /\ op.name = "center"

FarCorner == Point(x_max, y_max)

\* Outside the domain by more than eps on at least one axis.
OutsideDomain(p) ==
    \/ x_min - p.x > EpsDown
    \/ p.x - x_max > EpsDown
    \/ y_min - p.y > EpsDown
    \/ p.y - y_max > EpsDown

\* Inside the domain and not within eps of its minimum or maximum.
Interior(p) ==
    /\ x_min <= p.x /\ p.x <= x_max
    /\ y_min <= p.y /\ p.y <= y_max
    /\ ~WithinEps(p.x, x_min) /\ ~WithinEps(p.x, x_max)
    /\ ~WithinEps(p.y, y_min) /\ ~WithinEps(p.y, y_max)

NoRepeats(seq) ==
    \A m, n \in 1..Len(seq) : seq[m] = seq[n] => m = n

Range(seq) == {seq[n] : n \in 1..Len(seq)}

\* The cells in the order of the two loops of the generator expression.
Enumeration ==
    [n \in 1..(nx * ny) |-> Cell((n - 1) \div ny, (n - 1) % ny)]

-----------------------------------------------------------------------------
(* Claims.                                                                 *)

\* C1: on a valid grid, a point outside the domain by more than eps on at
\* least one axis is located nowhere: locate returns None.
C1_OutsideIsAbsent ==
    Located /\ OutsideDomain(op.arg) => op.result = None

\* C2: constructing with a size or resolution component <= 0 fails with
\* InvalidGridError and leaves no grid.
C2_InvalidArgsRejected ==
    ctor.outcome # "none" /\ ~ValidArgs(ctor.args)
        => ctor.outcome = "InvalidGridError" /\ grid = NoGrid

\* C3: on a valid grid, the center of every cell of the grid is located in
\* that cell.
C3_CenterRoundTrip ==
    Located =>
        \A c \in GridCells :
            op.arg = center(grid, c)
                => op.result = Found(c.col_index, c.row_index)

\* C4: on a valid grid, a finished iteration of cells has yielded
\* number_of_cells = nx*ny cells, no cell twice, and exactly the cells of
\* [0,nx) x [0,ny).
C4_CellsCoverGrid ==
    ValidGrid(grid) =>
        \A k \in Gens :
            gens[k].pc = "finished" =>
                /\ number_of_cells(grid) = nx * ny
                /\ Len(gens[k].yielded) = number_of_cells(grid)
                /\ NoRepeats(gens[k].yielded)
                /\ Range(gens[k].yielded) = GridCells

\* A finished iteration over a grid with more than one cell in a row and
\* more columns than rows or the reverse.
C4_Witness ==
    /\ ValidGrid(grid)
    /\ nx # ny
    /\ \E k \in Gens :
          gens[k].pc = "finished" /\ Len(gens[k].yielded) = nx * ny

\* C5: on a valid grid, a coordinate within eps of the domain maximum and
\* not within eps of the minimum gets index n-1 on its axis, and the far
\* corner lower_left + size is located in Cell(nx-1, ny-1).
C5_FarCornerInLastCell ==
    Located =>
        /\ WithinEps(op.arg.x, x_max) /\ ~WithinEps(op.arg.x, x_min)
              => op.ix = Index(nx - 1)
        /\ WithinEps(op.arg.y, y_max) /\ ~WithinEps(op.arg.y, y_min)
              => op.iy = Index(ny - 1)
        /\ op.arg = FarCorner => op.result = Found(nx - 1, ny - 1)

\* C6: on a valid grid, center of a cell of [0,nx) x [0,ny) is the point
\* (lower_left.x + (col_index + 0.5)*cell_width,
\*  lower_left.y + (row_index + 0.5)*cell_height), with cell_width =
\* size.width/nx and cell_height = size.height/ny (both sides times 2n).
C6_CenterFormula ==
    Centered /\ op.arg \in GridCells =>
        /\ op.result.kind = "Point"
        /\ 2 * nx * (op.result.point.x - x_min)
              = (2 * op.arg.col_index + 1) * grid.size[1]
        /\ 2 * ny * (op.result.point.y - y_min)
              = (2 * op.arg.row_index + 1) * grid.size[2]

\* The center of the last cell of a grid with several columns and rows.
C6_Witness ==
    /\ Centered
    /\ nx > 1 /\ ny > 1
    /\ op.arg = Cell(nx - 1, ny - 1)
    /\ op.result.kind = "Point"

\* C7: on a valid grid, every cell locate returns has 0 <= col_index < nx
\* and 0 <= row_index < ny.
C7_LocatedCellInRange ==
    Located /\ op.result.kind = "Cell" =>
        /\ 0 <= op.result.col_index /\ op.result.col_index < nx
        /\ 0 <= op.result.row_index /\ op.result.row_index < ny

\* C8: on a valid grid, a point inside the domain and not within eps of the
\* domain minimum or maximum is located in the cell with col_index =
\* floor((x - x_min)/cell_width) and row_index =
\* floor((y - y_min)/cell_height).
C8_InteriorTruncates ==
    Located /\ Interior(op.arg) =>
        op.result = Found((op.arg.x - x_min) \div cell_width,
                          (op.arg.y - y_min) \div cell_height)

\* An interior point off the cell edges on both axes, past the first column.
C8_Witness ==
    /\ Located
    /\ Interior(op.arg)
    /\ (op.arg.x - x_min) % cell_width # 0
    /\ (op.arg.y - y_min) % cell_height # 0
    /\ op.result.kind = "Cell"
    /\ op.result.col_index > 0

\* C9: on a valid grid, whatever the other generators have done, each
\* generator has yielded the first cells of the enumeration, as many as it
\* was stepped, and a finished one has yielded all nx*ny of them.
C9_IterationsIndependent ==
    ValidGrid(grid) =>
        \A k \in Gens :
            gens[k].pc # "none" =>
                /\ Len(gens[k].yielded) <= nx * ny
                /\ gens[k].yielded
                      = SubSeq(Enumeration, 1, Len(gens[k].yielded))
                /\ gens[k].pc = "finished"
                      => Len(gens[k].yielded) = nx * ny

\* A generator obtained after another had produced cells has finished with
\* all the cells of a grid of several cells, while another one is still
\* part-way through its own iteration.
C9_Witness ==
    /\ ValidGrid(grid)
    /\ nx * ny > 1
    /\ \E k, m \in Gens :
          /\ k # m
          /\ gens[k].pc = "finished" /\ gens[k].beside
          /\ Len(gens[k].yielded) = nx * ny
          /\ gens[m].pc = "suspended"
          /\ Len(gens[m].yielded) < nx * ny

\* C10: on a valid grid, center of a cell outside [0,nx) x [0,ny) raises
\* OutOfRangeError.
C10_CenterOutOfRangeRaises ==
    Centered /\ op.arg \notin GridCells
        => op.result.kind = "OutOfRangeError"

====
